---- MODULE Spec2Model ----
(***************************************************************************)
(* A model of the Web ORCA diagnostic and reporting scripts:               *)
(*   connection_troubleshoot.py  (SSL-mode / credential enumeration)       *)
(*   test_orca_odbc.py           (patient listing, search, today's visits) *)
(*   check_today_visits.py       (standalone visit report)                 *)
(* The database driver is the environment: every connect, execute and      *)
(* fetch call nondeterministically succeeds, raises a driver error         *)
(* (pyodbc.Error) or raises some other exception.                          *)
(* Non-ASCII literals of the source are written in romaji.                 *)
(***************************************************************************)
EXTENDS Integers, Sequences, FiniteSets, TLC

VARIABLES
    prog,                   \* which script / mode selector runs
    pc,                     \* control location inside it
    cfg,                    \* troubleshoot: index of the current test_config
    mode,                   \* troubleshoot: index of the current ssl_mode
    attempts,               \* troubleshoot: the attempts of the current call of
                            \*   test_connection_with_ssl_modes, in order
    tested,                 \* troubleshoot: the configs main has tested, in order
    result,                 \* troubleshoot: the value the last call returned
    successful_connections, \* troubleshoot: main's list
    lastMsg,                \* troubleshoot: error_msg of the current attempt
    guidance,               \* troubleshoot: guidance lines printed for it
    out,                    \* sections printed so far
    pg_hba_config,          \* troubleshoot: rules of the printed suggestion
    exit_code,              \* process exit status, NoExit while running
    connOpened, connClosed, \* connections opened / closed so far
    curOpened, curClosed,   \* cursors opened / closed so far
    tbl_ptinf,              \* database: the patient table, in storage order
    tbl_uketuke,            \* database: the reception table, in storage order
    user_input,             \* reports: what the operator types at the prompt
    search_term,            \* search_patients: the stripped input
    today,                  \* visit reports: the fetched current date
    fetched,                \* reports: the rows of the last fetchall()
    tries,                  \* test_orca_odbc.py: the calls of test_connection, in order
    queries                 \* test_connection: the queries answered in this call

vars == <<prog, pc, cfg, mode, attempts, tested, result, successful_connections,
          lastMsg, guidance, out, pg_hba_config, exit_code,
          connOpened, connClosed, curOpened, curClosed,
          tbl_ptinf, tbl_uketuke, user_input, search_term, today, fetched,
          tries, queries>>

\* what the report scripts read and write, and the troubleshooting tool does not
reportVars == <<tbl_ptinf, tbl_uketuke, user_input, search_term, today, fetched,
                tries, queries>>

troubleVars == <<cfg, mode, attempts, tested, result, successful_connections,
                 lastMsg, guidance, pg_hba_config>>

NoExit == "running"
Range(f) == {f[i] : i \in DOMAIN f}

NoMode == "none"
NoMsg == {"no error"}
NoResult == "none"
NoDate == 0

-----------------------------------------------------------------------------
(* connection_troubleshoot.py                                              *)

ssl_modes == <<"disable", "allow", "prefer", "require">>

test_configs ==
    << [database |-> "orca",     user |-> "orca",     password |-> "orca"],
       [database |-> "receipt",  user |-> "receipt",  password |-> "receipt"],
       [database |-> "weborca",  user |-> "weborca",  password |-> "weborca"],
       [database |-> "postgres", user |-> "postgres", password |-> ""] >>

client_ip == "100.89.18.15"

\* The substrings the handler looks for in str(e).  An error message is
\* modelled by the set of these substrings that occur in it.
Needles == {"pg_hba.conf entry", client_ip, "SSL encryption", "no encryption",
            "authentication failed", "database", "does not exist"}

Messages == SUBSET Needles

\* `needle in error_msg`
In(needle, error_msg) == needle \in error_msg

\* A variant of lines 62-73 with `if` in place of each `elif` of the chain.
GuidanceWithoutElif(error_msg) ==
    (IF In("pg_hba.conf entry", error_msg) /\ In(client_ip, error_msg)
     THEN <<"ip_not_allowed">> \o
          (IF In("SSL encryption", error_msg) THEN <<"ssl_required_ip_not_in_hba">>
           ELSE IF In("no encryption", error_msg) THEN <<"nonssl_ip_not_in_hba">>
           ELSE <<>>)
     ELSE <<>>)
    \o (IF In("authentication failed", error_msg)
        THEN <<"wrong_username_password">> ELSE <<>>)
    \o (IF In("database", error_msg) /\ In("does not exist", error_msg)
        THEN <<"database_does_not_exist">> ELSE <<>>)

\* lines 62-73: the guidance lines printed by the except handler, in print order.
Guidance(error_msg) ==
    IF In("pg_hba.conf entry", error_msg)
    THEN IF In(client_ip, error_msg)
         THEN <<"ip_not_allowed">> \o
              (IF In("SSL encryption", error_msg) THEN <<"ssl_required_ip_not_in_hba">>
               ELSE IF In("no encryption", error_msg) THEN <<"nonssl_ip_not_in_hba">>
               ELSE <<>>)
         ELSE <<>>
    ELSE IF In("authentication failed", error_msg) THEN <<"wrong_username_password">>
    ELSE IF In("database", error_msg) /\ In("does not exist", error_msg)
         THEN <<"database_does_not_exist">>
    ELSE <<>>

\* The outcome of an attempt is written into its history entry (the last one).
MarkLast(log, r) == [log EXCEPT ![Len(log)].result = r]

\* main, lines 117-126: the routine returned `result` for test_configs[cfg];
\* the for-loop goes on to the next config, or ends and the summary follows.
ReturnToMain(r) ==
    /\ result' = r
    /\ tested' = Append(tested, cfg)
    /\ successful_connections' =
          IF r.success THEN Append(successful_connections, test_configs[cfg])
                            ELSE successful_connections
    /\ cfg' = cfg + 1
    /\ pc' = "main_loop"
    /\ UNCHANGED mode

\* A variant of lines 46-55 without the `return`: the loop goes on.
AttemptSucceedsNoReturn ==
    /\ attempts' = MarkLast(attempts, "ok")
    /\ curClosed' = curClosed + 1
    /\ connClosed' = connClosed + 1
    /\ IF mode < Len(ssl_modes)
       THEN /\ mode' = mode + 1
            /\ pc' = "mode_loop"
            /\ UNCHANGED <<cfg, tested, result, successful_connections>>
       ELSE ReturnToMain([success |-> FALSE, ssl_mode |-> NoMode])
    /\ UNCHANGED <<lastMsg, guidance, connOpened, curOpened>>

\* lines 46-55: the verification query gave a row; close, report, return.
AttemptSucceeds ==
    /\ attempts' = MarkLast(attempts, "ok")
    /\ curClosed' = curClosed + 1
    /\ connClosed' = connClosed + 1
    /\ ReturnToMain([success |-> TRUE, ssl_mode |-> ssl_modes[mode]])
    /\ UNCHANGED <<lastMsg, guidance, connOpened, curOpened>>

\* A variant of lines 57-75 with the `return` of line 75 inside the loop.
AttemptFailsReturnsAtOnce(log, error_msg) ==
    /\ attempts' = MarkLast(log, "failed")
    /\ lastMsg' = error_msg
    /\ guidance' = Guidance(error_msg)
    /\ ReturnToMain([success |-> FALSE, ssl_mode |-> NoMode])

\* lines 57-75: `except pyodbc.Error` prints the guidance; then the for-loop
\* of line 24 takes the next mode, or line 75 returns {'success': False}.
AttemptFails(log, error_msg) ==
    /\ attempts' = MarkLast(log, "failed")
    /\ lastMsg' = error_msg
    /\ guidance' = Guidance(error_msg)
    /\ IF mode < Len(ssl_modes)
       THEN /\ mode' = mode + 1
            /\ pc' = "mode_loop"
            /\ UNCHANGED <<cfg, tested, result, successful_connections>>
       ELSE ReturnToMain([success |-> FALSE, ssl_mode |-> NoMode])

\* An exception that is no pyodbc.Error is not caught at line 57; it leaves
\* the routine and main and reaches `except Exception` of __main__
\* (lines 171-173): "Unexpected error", sys.exit(1).
AttemptRaises(log) ==
    /\ attempts' = MarkLast(log, "raised")
    /\ out' = Append(out, "unexpected_error")
    /\ exit_code' = 1
    /\ pc' = "exited"
    /\ UNCHANGED <<cfg, mode, tested, result, successful_connections, lastMsg,
                   guidance, pg_hba_config>>

\* main, lines 117-123: the for-loop takes the next config and calls
\* test_connection_with_ssl_modes, whose for-loop starts at the first mode.
TCall ==
    /\ prog = "troubleshoot" /\ pc = "main_loop"
    /\ cfg <= Len(test_configs)
    /\ mode' = 1
    /\ attempts' = <<>>
    /\ pc' = "mode_loop"
    /\ UNCHANGED <<prog, reportVars, cfg, tested, result, successful_connections, lastMsg,
                   guidance, out, pg_hba_config, exit_code, connOpened, connClosed,
                   curOpened, curClosed>>

\* lines 24-38: the head of an iteration prints the mode and builds the
\* connection string; the output of the attempt starts empty.
TTryMode ==
    /\ prog = "troubleshoot" /\ pc = "mode_loop"
    /\ lastMsg' = NoMsg
    /\ guidance' = <<>>
    /\ pc' = "connect"
    /\ UNCHANGED <<prog, reportVars, cfg, mode, attempts, tested, result, successful_connections,
                   out, pg_hba_config, exit_code, connOpened, connClosed,
                   curOpened, curClosed>>

\* The history with the entry of the attempt that line 39 starts.
Started == Append(attempts, [cfg |-> cfg, mode |-> ssl_modes[mode], result |-> "pending"])

\* line 39: pyodbc.connect(connection_string, timeout=10) returns a connection
TConnectOk ==
    /\ prog = "troubleshoot" /\ pc = "connect"
    /\ attempts' = Started
    /\ connOpened' = connOpened + 1
    /\ pc' = "execute"
    /\ UNCHANGED <<prog, reportVars, cfg, mode, tested, result, successful_connections,
                   lastMsg, guidance, out, pg_hba_config, exit_code, connClosed,
                   curOpened, curClosed>>

\* line 39 raises pyodbc.Error
TConnectDriverError ==
    /\ prog = "troubleshoot" /\ pc = "connect"
    /\ \E error_msg \in Messages : AttemptFails(Started, error_msg)
    /\ UNCHANGED <<prog, reportVars, out, pg_hba_config, exit_code, connOpened, connClosed,
                   curOpened, curClosed>>

\* line 39 raises an exception that is no pyodbc.Error
TConnectOtherError ==
    /\ prog = "troubleshoot" /\ pc = "connect"
    /\ AttemptRaises(Started)
    /\ UNCHANGED <<prog, reportVars, connOpened, connClosed, curOpened, curClosed>>

\* lines 42-43: connection.cursor(); cursor.execute("SELECT version();")
TExecuteOk ==
    /\ prog = "troubleshoot" /\ pc = "execute"
    /\ curOpened' = curOpened + 1
    /\ pc' = "fetch"
    /\ UNCHANGED <<prog, reportVars, troubleVars, out, exit_code, connOpened, connClosed, curClosed>>

\* line 43 raises pyodbc.Error: the handler runs, nothing is closed
TExecuteDriverError ==
    /\ prog = "troubleshoot" /\ pc = "execute"
    /\ curOpened' = curOpened + 1
    /\ \E error_msg \in Messages : AttemptFails(attempts, error_msg)
    /\ UNCHANGED <<prog, reportVars, out, pg_hba_config, exit_code, connOpened, connClosed, curClosed>>

\* line 43 raises an exception that is no pyodbc.Error
TExecuteOtherError ==
    /\ prog = "troubleshoot" /\ pc = "execute"
    /\ curOpened' = curOpened + 1
    /\ AttemptRaises(attempts)
    /\ UNCHANGED <<prog, reportVars, connOpened, connClosed, curClosed>>

\* line 44: cursor.fetchone() returns a row, [0] is the version
TFetchRow ==
    /\ prog = "troubleshoot" /\ pc = "fetch"
    /\ AttemptSucceeds
    /\ UNCHANGED <<prog, reportVars, out, pg_hba_config, exit_code>>

\* line 44: cursor.fetchone() returns None, None[0] raises TypeError
TFetchNone ==
    /\ prog = "troubleshoot" /\ pc = "fetch"
    /\ AttemptRaises(attempts)
    /\ UNCHANGED <<prog, reportVars, connOpened, connClosed, curOpened, curClosed>>

\* line 44 raises pyodbc.Error
TFetchDriverError ==
    /\ prog = "troubleshoot" /\ pc = "fetch"
    /\ \E error_msg \in Messages : AttemptFails(attempts, error_msg)
    /\ UNCHANGED <<prog, reportVars, out, pg_hba_config, exit_code, connOpened, connClosed,
                   curOpened, curClosed>>

\* line 44 raises an exception that is no pyodbc.Error
TFetchOtherError ==
    /\ prog = "troubleshoot" /\ pc = "fetch"
    /\ AttemptRaises(attempts)
    /\ UNCHANGED <<prog, reportVars, connOpened, connClosed, curOpened, curClosed>>

\* lines 77-98: the rule lines of the suggestion, in order (the comment
\* lines around them are left out).
generate_pg_hba_entries(databases, users, ip) ==
    LET m == Len(users)
    IN  [k \in 1..(2 * Len(databases) * m) |->
            LET pair == (k - 1) \div 2
            IN  [type     |-> IF k % 2 = 1 THEN "hostssl" ELSE "host",
                 database |-> databases[(pair \div m) + 1],
                 user     |-> users[(pair % m) + 1],
                 address  |-> ip,
                 method   |-> "md5"]]

\* lines 128-163: the summary, and the end of the process
TSummary ==
    /\ prog = "troubleshoot" /\ pc = "main_loop"
    /\ cfg > Len(test_configs)
    /\ IF successful_connections # <<>>
       THEN /\ out' = out \o <<"TROUBLESHOOTING SUMMARY", "successful_list">>
            /\ UNCHANGED pg_hba_config
       ELSE /\ out' = out \o <<"TROUBLESHOOTING SUMMARY", "no_successful_connections",
                               "SOLUTION FOR DATABASE ADMINISTRATOR",
                               "ALTERNATIVE SOLUTIONS">>
            /\ pg_hba_config' = generate_pg_hba_entries(
                                   [i \in 1..Len(test_configs) |-> test_configs[i].database],
                                   [i \in 1..Len(test_configs) |-> test_configs[i].user],
                                   client_ip)
    /\ exit_code' = 0
    /\ pc' = "exited"
    /\ UNCHANGED <<prog, reportVars, cfg, mode, attempts, tested, result, successful_connections,
                   lastMsg, guidance, connOpened, connClosed, curOpened, curClosed>>


-----------------------------------------------------------------------------
(* Start and end of a process                                              *)

\* the first step of each script and mode after the imports
StartOf(p) ==
    CASE p = "troubleshoot" -> "main_loop"
      [] p = "search" -> "input"
      [] p = "database" -> "drivers"
      [] p = "interactive" -> "inputs"
      [] p \in {"help", "unknown"} -> "dispatch"
      [] OTHER -> "connect"

\* a line of the output: connection_troubleshoot.py is modelled with plain
\* section names, the other scripts with tuples
Line(kind) == IF prog = "troubleshoot" THEN kind ELSE <<kind>>

\* `import pyodbc` at the top of every script: the module loads, or the
\* ImportError is raised outside every try block and the interpreter ends
\* with a traceback and status 1
Import ==
    /\ pc = "import"
    /\ \/ /\ pc' = StartOf(prog)
          /\ UNCHANGED <<out, exit_code>>
       \/ /\ out' = Append(out, Line("traceback"))
          /\ exit_code' = 1
          /\ pc' = "exited"
    /\ UNCHANGED <<prog, troubleVars, reportVars, connOpened, connClosed,
                   curOpened, curClosed>>

\* `except KeyboardInterrupt` of the two __main__ blocks: the operator
\* interrupts the process anywhere inside the try block
Interrupt ==
    /\ prog # "check_today"
    /\ pc \notin {"import", "exited"}
    /\ out' = Append(out, Line("interrupted"))
    /\ exit_code' = 0
    /\ pc' = "exited"
    /\ UNCHANGED <<prog, troubleVars, reportVars, connOpened, connClosed,
                   curOpened, curClosed>>

Init ==
    /\ prog \in {"troubleshoot"}
    /\ pc = "import"
    /\ cfg = 1
    /\ mode = 1
    /\ attempts = <<>>
    /\ tested = <<>>
    /\ result = NoResult
    /\ successful_connections = <<>>
    /\ lastMsg = NoMsg
    /\ guidance = <<>>
    /\ out = <<>>
    /\ pg_hba_config = <<>>
    /\ exit_code = NoExit
    /\ connOpened = 0 /\ connClosed = 0
    /\ curOpened = 0 /\ curClosed = 0
    /\ tbl_ptinf = <<>>
    /\ tbl_uketuke = <<>>
    /\ user_input = <<>>
    /\ search_term = <<>>
    /\ today = NoDate
    /\ fetched = <<>>
    /\ tries = <<>>
    /\ queries = 0

Next ==
    \/ Import
    \/ Interrupt
    \/ TCall
    \/ TTryMode
    \/ TConnectOk
    \/ TConnectDriverError
    \/ TConnectOtherError
    \/ TExecuteOk
    \/ TExecuteDriverError
    \/ TExecuteOtherError
    \/ TFetchRow
    \/ TFetchNone
    \/ TFetchDriverError
    \/ TFetchOtherError
    \/ TSummary

Spec == Init /\ [][Next]_vars

-----------------------------------------------------------------------------
(* Strings and SQL values.  A string is a sequence of characters; non-ASCII *)
(* characters are written as romaji tokens, one token per character.       *)

\* SQL NULL, Python None
NULL == <<"NULL">>

\* Python truth value of an optional string: None and '' are false
Truthy(x) == x # NULL /\ x # <<>>

Min(a, b) == IF a <= b THEN a ELSE b

\* Python s[a:b], 0 <= a <= b
Slice(s, a, b) == SubSeq(s, a + 1, Min(b, Len(s)))

\* SQL SUBSTRING(s, start, count), start >= 1
SUBSTRING(s, start, count) == SubSeq(s, start, Min(start + count - 1, Len(s)))

\* Python str.strip() for the blank
RECURSIVE LStrip(_)
LStrip(s) == IF s # <<>> /\ Head(s) = " " THEN LStrip(Tail(s)) ELSE s
RECURSIVE RStrip(_)
RStrip(s) == IF s # <<>> /\ s[Len(s)] = " " THEN RStrip(SubSeq(s, 1, Len(s) - 1)) ELSE s
Strip(s) == RStrip(LStrip(s))

\* SQL `s LIKE p` (PostgreSQL): % is any string, _ any one character, the
\* backslash takes the next character literally; characters are compared
\* exactly.  A NULL operand gives NULL, which a WHERE clause takes as false.
RECURSIVE LikeMatch(_, _)
LikeMatch(s, p) ==
    IF p = <<>> THEN s = <<>>
    ELSE IF Head(p) = "%"
         THEN \E k \in 0..Len(s) : LikeMatch(SubSeq(s, k + 1, Len(s)), Tail(p))
    ELSE IF Head(p) = "\\"
         THEN /\ Len(p) >= 2
              /\ s # <<>>
              /\ Head(s) = p[2]
              /\ LikeMatch(Tail(s), Tail(Tail(p)))
    ELSE IF Head(p) = "_"
         THEN s # <<>> /\ LikeMatch(Tail(s), Tail(p))
    ELSE s # <<>> /\ Head(s) = Head(p) /\ LikeMatch(Tail(s), Tail(p))

\* lower case of a character
Lower(c) == IF c = "S" THEN "s" ELSE c

\* A variant of LIKE that ignores case, as ILIKE does.
ILIKE(s, p) ==
    /\ s # NULL /\ p # NULL
    /\ LikeMatch([i \in DOMAIN s |-> Lower(s[i])], [i \in DOMAIN p |-> Lower(p[i])])

LIKE(s, p) == s # NULL /\ p # NULL /\ LikeMatch(s, p)

\* ORDER BY: the orders of `rows` in which every row is InOrder with all the
\* rows after it; rows that tie may come in any order.
Orderings(rows, InOrder(_, _)) ==
    LET from[I \in SUBSET DOMAIN rows] ==
            IF I = {} THEN {<<>>}
            ELSE UNION {{<<rows[i]>> \o rest : rest \in from[I \ {i}]} :
                           i \in {k \in I : \A j \in I : InOrder(rows[k], rows[j])}}
    IN  from[DOMAIN rows]

\* A variant of the truncation that keeps `limit` characters before "...".
TruncateKeepingLimit(s, limit, keep) ==
    IF Len(s) > limit THEN Slice(s, 0, limit) \o <<".", ".", ".">> ELSE s

\* Python truncation for display: `if len(s) > limit: s = s[:keep] + "..."`
Truncate(s, limit, keep) ==
    IF Len(s) > limit THEN Slice(s, 0, keep) \o <<".", ".", ".">> ELSE s

\* x or default
Or(x, default) == IF Truthy(x) THEN x ELSE default

\* the literals "namae nashi" (4 characters), "furigana nashi" (6),
\* "mitouroku" (3), "misettei" (3), "fumei" (2) of the source
NAMAE_NASHI == <<"na", "mae", "na", "shi">>
FURIGANA_NASHI == <<"fu", "ri", "ga", "na", "na", "shi">>
MITOUROKU == <<"mi", "tou", "roku">>
MISETTEI == <<"mi", "setsu", "tei">>
FUMEI == <<"fu", "mei">>
SEINENGAPPI_FUMEI == <<"sei", "nen", "gap", "pi", "fu", "mei">>

-----------------------------------------------------------------------------
(* test_orca_odbc.py: list_patients                                        *)

\* lines 191-195: CASE on sex
Gender(sex) ==
    IF sex = <<"1">> THEN <<"dan", "sei">>
    ELSE IF sex = <<"2">> THEN <<"jo", "sei">>
    ELSE FUMEI

\* A variant of lines 196-202 without `AND birthday != ''`.
BirthDateOfEmpty(birthday) ==
    IF birthday # NULL
    THEN SUBSTRING(birthday, 1, 4) \o <<"nen">> \o SUBSTRING(birthday, 5, 2)
            \o <<"gatsu">> \o SUBSTRING(birthday, 7, 2) \o <<"nichi">>
    ELSE SEINENGAPPI_FUMEI

\* lines 196-202: CASE on birthday
BirthDate(birthday) ==
    IF birthday # NULL /\ birthday # <<>>
    THEN SUBSTRING(birthday, 1, 4) \o <<"nen">> \o SUBSTRING(birthday, 5, 2)
            \o <<"gatsu">> \o SUBSTRING(birthday, 7, 2) \o <<"nichi">>
    ELSE SEINENGAPPI_FUMEI

\* lines 203-206: CASE on deathkbn
Status(deathkbn) ==
    IF deathkbn # NULL /\ deathkbn # <<" ">> THEN <<"shi", "bou">> ELSE <<"sei", "zon">>

PtidInOrder(a, b) == a.ptid <= b.ptid

\* lines 186-211: the possible results of the listing query
ListQuery(ptinf) ==
    Orderings(SelectSeq(ptinf, LAMBDA p : p.hospnum = 1), PtidInOrder)

\* lines 225-239: the table line of one fetched row
ListRow(p) ==
    <<"row", p.ptid,
      Truncate(Or(p.name, NAMAE_NASHI), 18, 15),
      Truncate(Or(p.kananame, FURIGANA_NASHI), 18, 15),
      Gender(p.sex), BirthDate(p.birthday), Status(p.deathkbn)>>

\* lines 245-260: the statistics line
ListStats(ptinf) ==
    LET rows == SelectSeq(ptinf, LAMBDA p : p.hospnum = 1)
        Count(P(_)) == Len(SelectSeq(rows, P))
    IN  <<"stats", Len(rows),
          Count(LAMBDA p : p.sex = <<"1">>),
          Count(LAMBDA p : p.sex = <<"2">>),
          Count(LAMBDA p : p.deathkbn # NULL /\ p.deathkbn # <<" ">>)>>

\* A routine of test_orca_odbc.py returns to __main__, which ends: exit 0.
Returns ==
    /\ pc' = "exited"
    /\ exit_code' = 0

\* lines 182-183: pyodbc.connect, connection.cursor()
LConnect ==
    /\ prog = "patients" /\ pc = "connect"
    /\ connOpened' = connOpened + 1
    /\ curOpened' = curOpened + 1
    /\ pc' = "query"
    /\ UNCHANGED <<prog, troubleVars, reportVars, out, exit_code, connClosed, curClosed>>

\* A variant of lines 213-241 without the test of line 216.
LQueryWithoutEmptyTest ==
    /\ prog = "patients" /\ pc = "query"
    /\ \E patients \in ListQuery(tbl_ptinf) :
          /\ fetched' = patients
          /\ out' = out \o << <<"count", Len(patients)>>, <<"header">> >>
                        \o [i \in DOMAIN patients |-> ListRow(patients[i])]
          /\ pc' = "stats"
          /\ UNCHANGED exit_code
    /\ UNCHANGED <<prog, troubleVars, tries, queries, tbl_ptinf, tbl_uketuke, user_input, search_term,
                   today, connOpened, connClosed, curOpened, curClosed>>

\* lines 213-241: execute, fetchall; no rows: the message and `return`;
\* rows: the count, the header and the table
LQuery ==
    /\ prog = "patients" /\ pc = "query"
    /\ \E patients \in ListQuery(tbl_ptinf) :
          /\ fetched' = patients
          /\ IF patients = <<>>
             THEN /\ out' = out \o << <<"no_patient_data">> >>
                  /\ Returns
             ELSE /\ out' = out \o << <<"count", Len(patients)>>, <<"header">> >>
                               \o [i \in DOMAIN patients |-> ListRow(patients[i])]
                  /\ pc' = "stats"
                  /\ UNCHANGED exit_code
    /\ UNCHANGED <<prog, troubleVars, tries, queries, tbl_ptinf, tbl_uketuke, user_input, search_term,
                   today, connOpened, connClosed, curOpened, curClosed>>

\* lines 243-263: the statistics, cursor.close(), connection.close()
LStats ==
    /\ prog = "patients" /\ pc = "stats"
    /\ out' = out \o << <<"stats_title">>, ListStats(tbl_ptinf) >>
    /\ curClosed' = curClosed + 1
    /\ connClosed' = connClosed + 1
    /\ Returns
    /\ UNCHANGED <<prog, troubleVars, reportVars, connOpened, curOpened>>

\* The handlers every routine of test_orca_odbc.py ends with:
\* `except pyodbc.Error` and `except Exception` print and fall off the end.
\* `printed` is what the try block printed before the call that raised.
Caught(printed, kind) ==
    /\ out' = out \o printed
                  \o << <<IF kind = "driver" THEN "database_error" ELSE "unexpected_error">> >>
    /\ Returns

ErrorKinds == {"driver", "other"}

\* lines 265-268: connect, execute or fetch of list_patients raises
LError ==
    /\ prog = "patients" /\ pc \in {"connect", "query", "stats"}
    /\ \E kind \in ErrorKinds :
          Caught(IF pc = "stats" THEN << <<"stats_title">> >> ELSE <<>>, kind)
    /\ UNCHANGED <<prog, troubleVars, reportVars, connOpened, connClosed,
                   curOpened, curClosed>>

-----------------------------------------------------------------------------
(* test_orca_odbc.py: search_patients                                      *)

\* lines 293-317: the possible results of the search query
SearchQuery(ptinf, pattern) ==
    Orderings(SelectSeq(ptinf, LAMBDA p : /\ p.hospnum = 1
                                          /\ (LIKE(p.name, pattern) \/ LIKE(p.kananame, pattern))),
              PtidInOrder)

\* line 319: search_pattern = f"%{search_term}%"
SearchPattern(term) == <<"%">> \o term \o <<"%">>

\* lines 331-347: the table line of one fetched row
SearchRow(p) ==
    <<"row", p.ptid,
      Truncate(Or(p.name, NAMAE_NASHI), 13, 10),
      Truncate(Or(p.kananame, FURIGANA_NASHI), 13, 10),
      Gender(p.sex), BirthDate(p.birthday),
      Truncate(Or(p.home_tel1, MITOUROKU), 13, 10)>>

\* lines 275-278: read and strip the input; nothing typed: message, return
SInput ==
    /\ prog = "search" /\ pc = "input"
    /\ search_term' = Strip(user_input)
    /\ IF Strip(user_input) = <<>>
       THEN /\ out' = Append(out, <<"enter_search_term">>)
            /\ Returns
       ELSE /\ pc' = "connect"
            /\ UNCHANGED <<out, exit_code>>
    /\ UNCHANGED <<prog, troubleVars, tries, queries, tbl_ptinf, tbl_uketuke, user_input, today, fetched,
                   connOpened, connClosed, curOpened, curClosed>>

\* lines 290-291: pyodbc.connect, connection.cursor()
SConnect ==
    /\ prog = "search" /\ pc = "connect"
    /\ connOpened' = connOpened + 1
    /\ curOpened' = curOpened + 1
    /\ pc' = "query"
    /\ UNCHANGED <<prog, troubleVars, reportVars, out, exit_code, connClosed, curClosed>>

\* lines 319-352: execute, fetchall; the no-match message or the table;
\* cursor.close(), connection.close()
SQuery ==
    /\ prog = "search" /\ pc = "query"
    /\ \E results \in SearchQuery(tbl_ptinf, SearchPattern(search_term)) :
          /\ fetched' = results
          /\ out' = IF results = <<>>
                    THEN out \o << <<"no_match", search_term>> >>
                    ELSE out \o << <<"count", Len(results)>>, <<"header">> >>
                             \o [i \in DOMAIN results |-> SearchRow(results[i])]
    /\ curClosed' = curClosed + 1
    /\ connClosed' = connClosed + 1
    /\ Returns
    /\ UNCHANGED <<prog, troubleVars, tries, queries, tbl_ptinf, tbl_uketuke, user_input, search_term,
                   today, connOpened, curOpened>>

\* lines 354-357: connect, execute or fetch of search_patients raises
SError ==
    /\ prog = "search" /\ pc \in {"connect", "query"}
    /\ \E kind \in ErrorKinds : Caught(<<>>, kind)
    /\ UNCHANGED <<prog, troubleVars, reportVars, connOpened, connClosed,
                   curOpened, curClosed>>

-----------------------------------------------------------------------------
(* test_orca_odbc.py: show_todays_visits                                   *)

\* SELECT TO_CHAR(CURRENT_DATE, 'YYYYMMDD'): the day the script runs.  A date
\* string of eight digits is modelled by its number.
Today == 20240115

\* TO_CHAR(CURRENT_DATE - INTERVAL '7 days', 'YYYYMMDD')
WeekAgo == 20240108

Digits == <<"0", "1", "2", "3", "4", "5", "6", "7", "8", "9">>
Rank(c) == CHOOSE i \in DOMAIN Digits : Digits[i] = c

\* x <= y for two strings of digits, as the database compares text
RECURSIVE StrLeq(_, _)
StrLeq(x, y) ==
    IF x = <<>> THEN TRUE
    ELSE IF y = <<>> THEN FALSE
    ELSE IF Rank(Head(x)) # Rank(Head(y)) THEN Rank(Head(x)) < Rank(Head(y))
    ELSE StrLeq(Tail(x), Tail(y))

\* ORDER BY u.uketime (ascending, NULL last)
TimeInOrder(a, b) ==
    IF b.uketime = NULL THEN TRUE
    ELSE IF a.uketime = NULL THEN FALSE
    ELSE StrLeq(a.uketime, b.uketime)

\* A variant of the WHERE clause without the two conditions on u.name.
IsTodaysVisitOfAnyName(u, day) ==
    /\ u.ukeymd = day
    /\ u.hospnum = 1

\* the WHERE clause of the three queries on today's visits
IsTodaysVisit(u, day) ==
    /\ u.ukeymd = day
    /\ u.name # NULL
    /\ u.name # <<>>
    /\ u.hospnum = 1

\* one row of `tbl_uketuke u LEFT JOIN tbl_ptinf p ON u.ptid = p.ptid`
Joined(u, full_name, kananame, sex, birthday) ==
    [ukeymd |-> u.ukeymd, uketime |-> u.uketime, ptid |-> u.ptid, name |-> u.name,
     sryka |-> u.sryka, full_name |-> full_name, kananame |-> kananame,
     sex |-> sex, birthday |-> birthday]

JoinOne(u, ptinf) ==
    LET m == SelectSeq(ptinf, LAMBDA p : p.ptid = u.ptid)
    IN  IF m = <<>> THEN <<Joined(u, NULL, NULL, NULL, NULL)>>
        ELSE [i \in DOMAIN m |-> Joined(u, m[i].name, m[i].kananame, m[i].sex, m[i].birthday)]

RECURSIVE LeftJoin(_, _)
LeftJoin(uketuke, ptinf) ==
    IF uketuke = <<>> THEN <<>>
    ELSE JoinOne(Head(uketuke), ptinf) \o LeftJoin(Tail(uketuke), ptinf)

\* lines 382-400 (and check_today_visits.py 18-34): the possible results
VisitQuery(uketuke, ptinf, day) ==
    Orderings(LeftJoin(SelectSeq(uketuke, LAMBDA u : IsTodaysVisit(u, day)), ptinf),
              TimeInOrder)

\* A variant of lines 417-421 with `> 6` in place of `>= 6`.
time_str_above_six(uketime) ==
    IF Truthy(uketime) /\ Len(uketime) > 6
    THEN Slice(uketime, 0, 2) \o <<":">> \o Slice(uketime, 2, 4) \o <<":">>
            \o Slice(uketime, 4, 6)
    ELSE Or(uketime, MISETTEI)

\* lines 417-421: the displayed time
time_str(uketime) ==
    IF Truthy(uketime) /\ Len(uketime) >= 6
    THEN Slice(uketime, 0, 2) \o <<":">> \o Slice(uketime, 2, 4) \o <<":">>
            \o Slice(uketime, 4, 6)
    ELSE Or(uketime, MISETTEI)

\* lines 428-441 and 472-476: dept_map
dept_map ==
    { << <<"0", "1">>, <<"nai", "ka">> >>,
      << <<"0", "2">>, <<"ge", "ka">> >>,
      << <<"0", "3">>, <<"shou", "ni", "ka">> >>,
      << <<"0", "4">>, <<"san", "fu", "jin", "ka">> >>,
      << <<"0", "5">>, <<"gan", "ka">> >>,
      << <<"0", "6">>, <<"ji", "bi", "ka">> >>,
      << <<"0", "7">>, <<"hi", "fu", "ka">> >>,
      << <<"0", "8">>, <<"hi", "nyou", "ki", "ka">> >>,
      << <<"0", "9">>, <<"sei", "kei", "ge", "ka">> >>,
      << <<"1", "0">>, <<"nou", "shin", "kei", "ge", "ka">> >>,
      << <<"1", "1">>, <<"ko", "kyuu", "ki", "ka">> >>,
      << <<"1", "2">>, <<"jun", "kan", "ki", "ka">> >> }

\* dict.get(key, default)
Get(map, key, default) ==
    IF \E e \in map : e[1] = key THEN (CHOOSE e \in map : e[1] = key)[2] ELSE default

\* lines 414-450: the table line of one fetched row
VisitRow(v) ==
    <<"row", time_str(v.uketime), v.ptid,
      Truncate(Or(v.name, Or(v.full_name, NAMAE_NASHI)), 18, 15),
      Truncate(Or(v.kananame, FURIGANA_NASHI), 16, 13),
      Get(dept_map, v.sryka, Or(v.sryka, MISETTEI))>>

\* lines 456-467: GROUP BY u.sryka ORDER BY visit_count DESC
DeptStats(uketuke, day) ==
    LET visits == SelectSeq(uketuke, LAMBDA u : IsTodaysVisit(u, day))
        depts == {visits[i].sryka : i \in DOMAIN visits}
        CountOf(d) == Cardinality({i \in DOMAIN visits : visits[i].sryka = d})
    IN  {[i \in DOMAIN f |-> <<f[i], CountOf(f[i])>>] :
            f \in {g \in [1..Cardinality(depts) -> depts] :
                      /\ \A i, j \in DOMAIN g : i # j => g[i] # g[j]
                      /\ \A i \in 1..(Cardinality(depts) - 1) :
                            CountOf(g[i]) >= CountOf(g[i + 1])}}

\* A variant of lines 471-478 with `dept_map.get(dept, 'fumei')`.
DeptLineWithoutRawCode(stat) == <<"dept", Get(dept_map, stat[1], FUMEI), stat[2]>>

\* lines 471-478: one line of the breakdown
DeptLine(stat) == <<"dept", Get(dept_map, stat[1], Or(stat[1], FUMEI)), stat[2]>>

\* lines 374-375: pyodbc.connect, connection.cursor()
VConnect ==
    /\ prog = "today" /\ pc = "connect"
    /\ connOpened' = connOpened + 1
    /\ curOpened' = curOpened + 1
    /\ pc' = "today"
    /\ UNCHANGED <<prog, troubleVars, reportVars, out, exit_code, connClosed, curClosed>>

\* lines 378-379: the current date
VToday ==
    /\ prog = "today" /\ pc = "today"
    /\ today' = Today
    /\ pc' = "query"
    /\ UNCHANGED <<prog, troubleVars, tries, queries, tbl_ptinf, tbl_uketuke, user_input, search_term,
                   fetched, out, exit_code, connOpened, connClosed, curOpened, curClosed>>

\* lines 402-452: execute, fetchall; no rows: the message and `return`;
\* rows: the count, the header and the table
VQuery ==
    /\ prog = "today" /\ pc = "query"
    /\ \E visits \in VisitQuery(tbl_uketuke, tbl_ptinf, today) :
          /\ fetched' = visits
          /\ IF visits = <<>>
             THEN /\ out' = out \o << <<"no_visits_today", today>> >>
                  /\ Returns
             ELSE /\ out' = out \o << <<"count", Len(visits)>>, <<"header">> >>
                               \o [i \in DOMAIN visits |-> VisitRow(visits[i])]
                  /\ pc' = "stats"
                  /\ UNCHANGED exit_code
    /\ UNCHANGED <<prog, troubleVars, tries, queries, tbl_ptinf, tbl_uketuke, user_input, search_term,
                   today, connOpened, connClosed, curOpened, curClosed>>

\* lines 454-481: the breakdown, cursor.close(), connection.close()
VStats ==
    /\ prog = "today" /\ pc = "stats"
    /\ \E dept_stats \in DeptStats(tbl_uketuke, today) :
          out' = out \o << <<"stats_title">> >>
                     \o [i \in DOMAIN dept_stats |-> DeptLine(dept_stats[i])]
    /\ curClosed' = curClosed + 1
    /\ connClosed' = connClosed + 1
    /\ Returns
    /\ UNCHANGED <<prog, troubleVars, reportVars, connOpened, curOpened>>

\* lines 483-486: connect, execute or fetch of show_todays_visits raises
\* (fetchone() returning None at line 379 is a TypeError)
VError ==
    /\ prog = "today" /\ pc \in {"connect", "today", "query", "stats"}
    /\ \E kind \in ErrorKinds :
          Caught(IF pc = "stats" THEN << <<"stats_title">> >> ELSE <<>>, kind)
    /\ UNCHANGED <<prog, troubleVars, reportVars, connOpened, connClosed,
                   curOpened, curClosed>>

-----------------------------------------------------------------------------
(* check_today_visits.py                                                   *)

\* lines 41 and 72: time_str
check_time_str(uketime) ==
    IF Truthy(uketime) /\ Len(uketime) >= 6
    THEN Slice(uketime, 0, 2) \o <<":">> \o Slice(uketime, 2, 4) \o <<":">>
            \o Slice(uketime, 4, 6)
    ELSE Or(uketime, MISETTEI)

\* line 71: date_str, the year, month and day of the eight digits
date_str(ukeymd) == <<ukeymd \div 10000, (ukeymd \div 100) % 100, ukeymd % 100>>

\* `name or full_name`
NameOr(name, full_name) == IF Truthy(name) THEN name ELSE full_name

\* ORDER BY u.ukeymd DESC, u.uketime DESC (descending, NULL first)
RecentInOrder(a, b) ==
    \/ a.ukeymd > b.ukeymd
    \/ /\ a.ukeymd = b.ukeymd
       /\ IF a.uketime = NULL THEN TRUE
          ELSE IF b.uketime = NULL THEN FALSE
          ELSE StrLeq(b.uketime, a.uketime)

\* lines 48-64: the possible results of the query for the last 7 days
RecentQuery(uketuke, ptinf) ==
    Orderings(LeftJoin(SelectSeq(uketuke, LAMBDA u : /\ u.ukeymd >= WeekAgo
                                                     /\ u.name # NULL
                                                     /\ u.name # <<>>
                                                     /\ u.hospnum = 1), ptinf),
              RecentInOrder)

\* lines 8-9: pyodbc.connect, connection.cursor()
KConnect ==
    /\ prog = "check_today" /\ pc = "connect"
    /\ connOpened' = connOpened + 1
    /\ curOpened' = curOpened + 1
    /\ pc' = "today"
    /\ UNCHANGED <<prog, troubleVars, reportVars, out, exit_code, connClosed, curClosed>>

\* lines 12-14: the current date
KToday ==
    /\ prog = "check_today" /\ pc = "today"
    /\ today' = Today
    /\ out' = Append(out, <<"todays_date", Today>>)
    /\ pc' = "query"
    /\ UNCHANGED <<prog, troubleVars, tries, queries, tbl_ptinf, tbl_uketuke, user_input, search_term,
                   fetched, exit_code, connOpened, connClosed, curOpened, curClosed>>

\* lines 17-44: today's visits, one line each, or the no-visit message
KQuery ==
    /\ prog = "check_today" /\ pc = "query"
    /\ \E today_visits \in VisitQuery(tbl_uketuke, tbl_ptinf, today) :
          /\ fetched' = today_visits
          /\ out' = out \o << <<"visits_title", today>> >>
                        \o (IF today_visits # <<>>
                            THEN [i \in DOMAIN today_visits |->
                                    LET v == today_visits[i]
                                    IN  <<"visit", v.ptid, NameOr(v.name, v.full_name),
                                          check_time_str(v.uketime), v.sryka>>]
                            ELSE << <<"no_visits_today">> >>)
    /\ pc' = "recent"
    /\ UNCHANGED <<prog, troubleVars, tries, queries, tbl_ptinf, tbl_uketuke, user_input, search_term,
                   today, exit_code, connOpened, connClosed, curOpened, curClosed>>

\* lines 46-78: the visits of the last 7 days; cursor.close(),
\* connection.close(); the script ends
KRecent ==
    /\ prog = "check_today" /\ pc = "recent"
    /\ \E recent_visits \in RecentQuery(tbl_uketuke, tbl_ptinf) :
          /\ fetched' = recent_visits
          /\ out' = out \o << <<"recent_title">> >>
                        \o (IF recent_visits # <<>>
                            THEN [i \in DOMAIN recent_visits |->
                                    LET v == recent_visits[i]
                                    IN  <<"recent", date_str(v.ukeymd),
                                          check_time_str(v.uketime),
                                          NameOr(v.name, v.full_name)>>]
                            ELSE << <<"no_recent_visits">> >>)
    /\ curClosed' = curClosed + 1
    /\ connClosed' = connClosed + 1
    /\ Returns
    /\ UNCHANGED <<prog, troubleVars, tries, queries, tbl_ptinf, tbl_uketuke, user_input, search_term,
                   today, connOpened, curOpened>>

\* lines 80-81: `except Exception` prints the error; the script ends
KError ==
    /\ prog = "check_today" /\ pc \in {"connect", "today", "query", "recent"}
    /\ out' = out \o (IF pc = "query" THEN << <<"visits_title", today>> >>
                      ELSE IF pc = "recent" THEN << <<"recent_title">> >>
                      ELSE <<>>)
                  \o << <<"error">> >>
    /\ Returns
    /\ UNCHANGED <<prog, troubleVars, reportVars, connOpened, connClosed,
                   curOpened, curClosed>>

-----------------------------------------------------------------------------
(* test_orca_odbc.py: test_connection, test_orca_database, __main__         *)

\* what the steps below leave alone
fixedVars == <<prog, troubleVars, tbl_ptinf, tbl_uketuke, user_input, search_term, fetched>>

\* A variant of lines 621-623 with sys.exit(0).
EscapesWithStatusZero ==
    /\ out' = Append(out, <<"top_level_error">>)
    /\ exit_code' = 0
    /\ pc' = "exited"

\* lines 621-623: an exception that leaves a routine reaches `except
\* Exception` of __main__
Escapes ==
    /\ out' = Append(out, <<"top_level_error">>)
    /\ exit_code' = 1
    /\ pc' = "exited"

\* lines 99-151: the connection strings of test_orca_database, in the order
\* of the calls
connection_params ==
    << [driver |-> "PostgreSQL ANSI", database |-> "orca"],
       [driver |-> "PostgreSQL Unicode", database |-> "orca"],
       [driver |-> "PostgreSQL ANSI", database |-> "receipt"],
       [driver |-> "PostgreSQL ANSI", database |-> "weborca"],
       [driver |-> "PostgreSQL ANSI", database |-> "postgres"] >>

\* A variant of lines 127-156 without the `break` of line 156.
NextTryWithoutBreak(log) ==
    IF (log[Len(log)].result # "ok" \/ Len(log) >= 3) /\ Len(log) < Len(connection_params)
    THEN Len(log) + 1
    ELSE 0

\* lines 127-156: the call that follows the calls of `log`, 0 if none: the
\* next connection string after a failure
NextTry(log) ==
    IF log[Len(log)].result # "ok" /\ Len(log) < Len(connection_params)
    THEN Len(log) + 1
    ELSE 0

\* lines 25-27: test_connection is called and prints what it tests
Begin(log, printed, driver, database) ==
    /\ tries' = Append(log, [driver |-> driver, database |-> database, result |-> "started"])
    /\ queries' = 0
    /\ out' = out \o printed \o << <<"testing", driver, database>> >>
    /\ pc' = "tc_connect"

\* test_connection returns r to its caller: test_orca_database goes on with
\* the next connection string or with its summary, test_specific_connection
\* returns
Return(printed, r) ==
    LET log == [tries EXCEPT ![Len(tries)].result = r]
        n == NextTry(log)
    IN  IF prog = "database" /\ n # 0
        THEN /\ Begin(log, printed \o (IF n = 3 THEN << <<"trying_alternatives">> >> ELSE <<>>),
                      connection_params[n].driver, connection_params[n].database)
             /\ UNCHANGED exit_code
        ELSE IF prog = "database"
        THEN /\ tries' = log
             /\ out' = out \o printed
             /\ pc' = "summary"
             /\ UNCHANGED <<queries, exit_code>>
        ELSE /\ tries' = log
             /\ out' = out \o printed
             /\ Returns
             /\ UNCHANGED queries

\* lines 30-33: pyodbc.connect, connection.cursor()
CConnect ==
    /\ pc = "tc_connect"
    /\ connOpened' = connOpened + 1
    /\ curOpened' = curOpened + 1
    /\ pc' = "tc_execute"
    /\ UNCHANGED <<fixedVars, today, tries, queries, out, exit_code, connClosed, curClosed>>

\* lines 36, 40, 44, 48: cursor.execute of one of the four queries
CExecute ==
    /\ pc = "tc_execute"
    /\ pc' = "tc_fetch"
    /\ UNCHANGED <<fixedVars, today, tries, queries, out, exit_code,
                   connOpened, connClosed, curOpened, curClosed>>

\* lines 37-70: cursor.fetchone()[0]; after the fourth query the result is
\* printed, cursor and connection are closed and the result is returned
CFetch ==
    /\ pc = "tc_fetch"
    /\ IF queries + 1 = 4
       THEN /\ curClosed' = curClosed + 1
            /\ connClosed' = connClosed + 1
            /\ Return(<< <<"connection_successful">> >>, "ok")
       ELSE /\ queries' = queries + 1
            /\ pc' = "tc_execute"
            /\ UNCHANGED <<tries, out, exit_code, connClosed, curClosed>>
    /\ UNCHANGED <<fixedVars, today, connOpened, curOpened>>

\* lines 72-77: connect, execute or fetch raises (fetchone() returning None
\* is a TypeError); both handlers print and return None
CError ==
    /\ pc \in {"tc_connect", "tc_execute", "tc_fetch"}
    /\ \E kind \in ErrorKinds :
          Return(<< <<IF kind = "driver" THEN "connection_failed" ELSE "unexpected_error">> >>,
                 "failed")
    /\ UNCHANGED <<fixedVars, today, connOpened, connClosed, curOpened, curClosed>>

\* lines 80-86, 91-124: list_available_drivers, then the first call
DDrivers ==
    /\ prog = "database" /\ pc = "drivers"
    /\ Begin(tries, << <<"available_drivers">> >>,
             connection_params[1].driver, connection_params[1].database)
    /\ UNCHANGED <<fixedVars, today, exit_code, connOpened, connClosed, curOpened, curClosed>>

\* line 83: pyodbc.drivers() raises, outside every try block of the routine
DDriversError ==
    /\ prog = "database" /\ pc = "drivers"
    /\ Escapes
    /\ UNCHANGED <<fixedVars, today, tries, queries, connOpened, connClosed,
                   curOpened, curClosed>>

\* lines 158-164 and 555-556: the summary of test_orca_database, the title of
\* the patient overview
DSummary ==
    /\ prog = "database" /\ pc = "summary"
    /\ out' = out \o << <<"connection_test_summary">>, <<"patient_overview_title">> >>
    /\ pc' = "stats_connect"
    /\ UNCHANGED <<fixedVars, today, tries, queries, exit_code, connOpened, connClosed,
                   curOpened, curClosed>>

\* lines 568-569: pyodbc.connect, connection.cursor()
GConnect ==
    /\ prog = "database" /\ pc = "stats_connect"
    /\ connOpened' = connOpened + 1
    /\ curOpened' = curOpened + 1
    /\ pc' = "stats_query"
    /\ UNCHANGED <<fixedVars, today, tries, queries, out, exit_code, connClosed, curClosed>>

\* lines 571-585, 605-609: the counts of the patients of facility 1; none:
\* the message, cursor.close(), connection.close()
GStats ==
    /\ prog = "database" /\ pc = "stats_query"
    /\ LET stats == ListStats(tbl_ptinf)
       IN  IF stats[2] > 0
           THEN /\ out' = Append(out, <<"patient_overview", stats[2], stats[3], stats[4]>>)
                /\ pc' = "stats_today"
                /\ UNCHANGED <<exit_code, connClosed, curClosed>>
           ELSE /\ out' = Append(out, <<"no_patients_registered">>)
                /\ curClosed' = curClosed + 1
                /\ connClosed' = connClosed + 1
                /\ Returns
    /\ UNCHANGED <<fixedVars, today, tries, queries, connOpened, curOpened>>

\* lines 587-588: the current date
GToday ==
    /\ prog = "database" /\ pc = "stats_today"
    /\ today' = Today
    /\ pc' = "stats_visits"
    /\ UNCHANGED <<fixedVars, tries, queries, out, exit_code, connOpened, connClosed,
                   curOpened, curClosed>>

\* lines 590-609: the number of today's visits, the hints, cursor.close(),
\* connection.close()
GVisits ==
    /\ prog = "database" /\ pc = "stats_visits"
    /\ out' = out \o << <<"todays_visit_count",
                          Len(SelectSeq(tbl_uketuke, LAMBDA u : IsTodaysVisit(u, today)))>>,
                        <<"hints">> >>
    /\ curClosed' = curClosed + 1
    /\ connClosed' = connClosed + 1
    /\ Returns
    /\ UNCHANGED <<fixedVars, today, tries, queries, connOpened, curOpened>>

\* lines 611-612: `except Exception` of the patient overview
GError ==
    /\ prog = "database"
    /\ pc \in {"stats_connect", "stats_query", "stats_today", "stats_visits"}
    /\ out' = Append(out, <<"patient_data_failed">>)
    /\ Returns
    /\ UNCHANGED <<fixedVars, today, tries, queries, connOpened, connClosed,
                   curOpened, curClosed>>

\* what the operator types for the database name and the user name
AnswerValues == {<<>>, <<"o", "r", "c", "a">>}

\* lines 494-521: the prompts of test_specific_connection; without a database
\* or a user name the routine returns, else it calls test_connection
IInputs ==
    /\ prog = "interactive" /\ pc = "inputs"
    /\ \E database \in AnswerValues, username \in AnswerValues,
          choice \in {<<>>, <<"1">>, <<"2">>} :
          IF database = <<>> \/ username = <<>>
          THEN /\ out' = out \o << <<"custom_test_title">>, <<"database_and_username_required">> >>
               /\ Returns
               /\ UNCHANGED <<tries, queries>>
          ELSE /\ Begin(tries, << <<"custom_test_title">> >>,
                        IF Or(choice, <<"1">>) = <<"1">> THEN "PostgreSQL ANSI"
                        ELSE "PostgreSQL Unicode",
                        database)
               /\ UNCHANGED exit_code
    /\ UNCHANGED <<fixedVars, today, connOpened, connClosed, curOpened, curClosed>>

\* lines 494-508: input() raises (end of input), outside every try block of
\* the routine
IInputError ==
    /\ prog = "interactive" /\ pc = "inputs"
    /\ Escapes
    /\ UNCHANGED <<fixedVars, today, tries, queries, connOpened, connClosed,
                   curOpened, curClosed>>

\* line 275: input() of search_patients raises, before the try block
SInputError ==
    /\ prog = "search" /\ pc = "input"
    /\ Escapes
    /\ UNCHANGED <<fixedVars, today, tries, queries, connOpened, connClosed,
                   curOpened, curClosed>>

\* lines 538-546: --help prints the usage
MHelp ==
    /\ prog = "help" /\ pc = "dispatch"
    /\ out' = Append(out, <<"usage">>)
    /\ Returns
    /\ UNCHANGED <<fixedVars, today, tries, queries, connOpened, connClosed,
                   curOpened, curClosed>>

\* lines 547-549: any other option
MUnknown ==
    /\ prog = "unknown" /\ pc = "dispatch"
    /\ out' = out \o << <<"unknown_option">>, <<"use_help">> >>
    /\ Returns
    /\ UNCHANGED <<fixedVars, today, tries, queries, connOpened, connClosed,
                   curOpened, curClosed>>

-----------------------------------------------------------------------------
(* The databases and inputs the reports are run on                          *)

MaxPatients == 2
MaxVisits == 2

NameValues == {NULL, <<>>, <<"s">>, <<"S">>, <<"S", "s">>}

\* facility, name and phonetic name of a patient: every name in facility 1,
\* a phonetic name with and without a name, a patient of another facility
PatientValues ==
    {<<1, n, NULL>> : n \in NameValues}
    \cup {<<1, NULL, <<"s">> >>, <<1, <<"S">>, <<"s">> >>, <<2, <<"s">>, NULL>>}

\* a row of tbl_ptinf
Patient(ptid, hospnum, name, kananame) ==
    [ptid |-> ptid, hospnum |-> hospnum, name |-> name, kananame |-> kananame,
     sex |-> <<"1">>, birthday |-> <<"1", "9", "8", "0", "0", "1", "3", "1">>,
     deathkbn |-> NULL, home_tel1 |-> NULL]

\* the patient tables of the listing and the search: up to MaxPatients rows
\* with distinct ptid, stored latest first
PatientTables ==
    UNION {{[i \in 1..n |-> Patient(n + 1 - i, c[i][1], c[i][2], c[i][3])] :
               c \in [1..n -> PatientValues]} : n \in 0..MaxPatients}

\* what the operator types at the search prompt
SearchInputs ==
    {<<>>, <<" ">>, <<"s">>, <<"S">>, <<" ", "s">>, <<"s", "S">>, <<"S", "s">>,
     <<"_">>, <<"%">>, <<"\\">>, <<"\\", "s">>, <<"S", "_">>}

\* a row of tbl_uketuke
Visit(ukeymd, uketime, hospnum, name, sryka) ==
    [ukeymd |-> ukeymd, uketime |-> uketime, ptid |-> 1, hospnum |-> hospnum,
     name |-> name, sryka |-> sryka]

\* the rows of the reception tables: every kind of time value and of
\* department code, two rows of the same time, a row failing each condition
\* of the filter
VisitRowList ==
    <<Visit(Today, NULL, 1, <<"T">>, <<"0", "2">>),
      Visit(Today, <<>>, 1, <<"T">>, NULL),
      Visit(Today, <<"0", "9", "3", "0", "1">>, 1, <<"T">>, <<>>),
      Visit(Today, <<"0", "9", "3", "0", "1", "5">>, 1, <<"T">>, <<"0", "1">>),
      Visit(Today, <<"0", "9", "3", "0", "1", "5">>, 1, <<"T">>, <<"0", "2">>),
      Visit(Today, <<"0", "9", "3", "0", "1", "5", "7">>, 1, <<"T">>, <<"9", "9">>),
      Visit(Today, <<"1", "4", "0", "5", "5", "9">>, 1, <<"T">>, <<"0", "2">>),
      Visit(20240110, <<"0", "9", "3", "0", "1", "5">>, 1, <<"T">>, <<"0", "2">>),
      Visit(20231201, <<"0", "9", "3", "0", "1", "5">>, 1, <<"T">>, <<"0", "2">>),
      Visit(Today, <<"0", "9", "3", "0", "1", "5">>, 1, NULL, <<"0", "2">>),
      Visit(Today, <<"0", "9", "3", "0", "1", "5">>, 1, <<>>, <<"0", "2">>),
      Visit(Today, <<"0", "9", "3", "0", "1", "5">>, 2, <<"T">>, <<"0", "2">>)>>

VisitRows == Range(VisitRowList)

\* the reception tables: up to MaxVisits rows, each table once whatever the
\* order of its rows in storage, which no query result depends on (every
\* query is ordered, with ties in any order, or counts)
VisitTables ==
    UNION {{[i \in 1..n |-> VisitRowList[f[i]]] :
               f \in {g \in [1..n -> DOMAIN VisitRowList] :
                         \A i \in 1..(n - 1) : g[i] <= g[i + 1]}} : n \in 0..MaxVisits}

\* the patient tables of the visit reports: no patient 1, one, or two rows
\* with ptid 1 (of two facilities)
JoinedPatientTables ==
    {<<>>,
     <<Patient(1, 1, <<"P">>, <<"k">>)>>,
     <<Patient(1, 1, <<"P">>, <<"k">>), Patient(1, 2, <<"Q">>, NULL)>>}

\* the longest name and phonetic name in the tables
MaxNameLen == 21

\* a string of n characters c
Chars(c, n) == [i \in 1..n |-> c]

\* the birthday column: NULL, empty, eight digits, a blank, four digits,
\* nine digits
BirthdayValues ==
    {NULL, <<>>, <<"1", "9", "8", "0", "0", "1", "3", "1">>, <<" ">>,
     <<"1", "9", "8", "0">>, <<"1", "9", "8", "0", "0", "1", "3", "1", "9">>}

\* patient tables of one row: a name and a phonetic name of every length,
\* every kind of birthday
LongPatientTables ==
    {<<Patient(1, 1, Chars("s", n), Chars("k", n))>> : n \in 1..MaxNameLen}
    \cup {<<[Patient(1, 1, <<"s">>, NULL) EXCEPT !.birthday = b]>> : b \in BirthdayValues}

\* the databases of the listing and the search
PatientDatabases == {<<ptinf, <<>> >> : ptinf \in PatientTables \cup LongPatientTables}

\* the databases of the visit reports; among them one visit with a name of
\* every length of a patient with a phonetic name of that length
VisitDatabases ==
    (JoinedPatientTables \X VisitTables)
    \cup {<< <<Patient(1, 1, <<"P">>, Chars("k", n))>>,
             <<Visit(Today, <<"0", "9", "3", "0", "1", "5">>, 1, Chars("s", n), <<"0", "2">>)>> >> :
             n \in 1..MaxNameLen}

\* the databases of the default mode: no patient, a patient without a visit,
\* a patient with a visit of today
SummaryDatabases ==
    {<< <<>>, <<>> >>,
     << <<Patient(1, 1, <<"P">>, <<"k">>)>>, <<>> >>,
     << <<Patient(1, 1, <<"P">>, <<"k">>)>>,
        <<Visit(Today, <<"0", "9", "3", "0", "1", "5">>, 1, <<"T">>, <<"0", "2">>)>> >>}

\* the routines that print a report
ReportProgs == {"patients", "search", "today", "check_today"}

\* the modes of test_orca_odbc.py without a report
OtherProgs == {"database", "interactive", "help", "unknown"}

InitReport ==
    /\ prog \in ReportProgs \cup OtherProgs
    /\ pc = "import"
    /\ \E db \in IF prog \in {"patients", "search"} THEN PatientDatabases
                  ELSE IF prog \in {"today", "check_today"} THEN VisitDatabases
                  ELSE IF prog = "database" THEN SummaryDatabases
                  ELSE {<< <<>>, <<>> >>} :
          /\ tbl_ptinf = db[1]
          /\ tbl_uketuke = db[2]
    /\ user_input \in IF prog = "search" THEN SearchInputs ELSE {<<>>}
    /\ search_term = <<>>
    /\ today = NoDate
    /\ fetched = <<>>
    /\ tries = <<>>
    /\ queries = 0
    /\ out = <<>>
    /\ exit_code = NoExit
    /\ connOpened = 0 /\ connClosed = 0
    /\ curOpened = 0 /\ curClosed = 0
    /\ cfg = 1
    /\ mode = 1
    /\ attempts = <<>>
    /\ tested = <<>>
    /\ result = NoResult
    /\ successful_connections = <<>>
    /\ lastMsg = NoMsg
    /\ guidance = <<>>
    /\ pg_hba_config = <<>>

NextReport ==
    \/ Import
    \/ Interrupt
    \/ LConnect
    \/ LQuery
    \/ LStats
    \/ LError
    \/ SInput
    \/ SConnect
    \/ SQuery
    \/ SError
    \/ VConnect
    \/ VToday
    \/ VQuery
    \/ VStats
    \/ VError
    \/ KConnect
    \/ KToday
    \/ KQuery
    \/ KRecent
    \/ KError
    \/ CConnect
    \/ CExecute
    \/ CFetch
    \/ CError
    \/ DDrivers
    \/ DDriversError
    \/ DSummary
    \/ GConnect
    \/ GStats
    \/ GToday
    \/ GVisits
    \/ GError
    \/ IInputs
    \/ IInputError
    \/ SInputError
    \/ MHelp
    \/ MUnknown

SpecReport == InitReport /\ [][NextReport]_vars

\* every script
SpecScripts == (Init \/ InitReport) /\ [][Next \/ NextReport]_vars

-----------------------------------------------------------------------------
(* Properties of connection_troubleshoot.py                                *)

\* the tool has ended by itself: it was loaded and not interrupted
TroubleExited ==
    /\ prog = "troubleshoot" /\ pc = "exited"
    /\ Range(out) \cap {"traceback", "interrupted"} = {}

\* C1: within one call of test_connection_with_ssl_modes (one credential
\* set) every SSL mode is attempted at most once, and nothing is attempted
\* after the first attempt whose connect and verification query succeed: that
\* attempt is the last of the call, and the call returned success with its mode.
C1_EachModeOnceStopAtSuccess ==
    /\ \A i, j \in DOMAIN attempts :
          /\ attempts[i].mode \in Range(ssl_modes)
          /\ attempts[i].cfg = attempts[j].cfg
          /\ (i # j => attempts[i].mode # attempts[j].mode)
    /\ \A i \in DOMAIN attempts :
          attempts[i].result = "ok" =>
             /\ i = Len(attempts)
             /\ pc \in {"main_loop", "exited"}
             /\ tested # <<>> /\ tested[Len(tested)] = attempts[i].cfg
             /\ result = [success |-> TRUE, ssl_mode |-> attempts[i].mode]

\* C1 witness: a call whose second attempt succeeded has returned.
C1_Witness ==
    /\ Len(attempts) = 2
    /\ attempts[1].result = "failed"
    /\ attempts[2].result = "ok"
    /\ pc = "main_loop"

\* C2: the i-th attempt of a call uses the i-th mode of disable, allow,
\* prefer, require, every attempt before the current one has failed, and a
\* call returns {'success': False} only after four failed attempts.
C2_FixedOrderFailureAfterAllFour ==
    LET order == <<"disable", "allow", "prefer", "require">>
    IN  /\ Len(attempts) <= 4
        /\ \A i \in DOMAIN attempts :
              /\ attempts[i].mode = order[i]
              /\ (i < Len(attempts) => attempts[i].result = "failed")
        /\ (pc = "main_loop" /\ tested # <<>> /\ ~result.success) =>
              /\ Len(attempts) = 4
              /\ \A i \in DOMAIN attempts : attempts[i].result = "failed"

\* C2 witness: the second call returned failure after its four attempts.
C2_Witness ==
    /\ pc = "main_loop" /\ tested = <<1, 2>> /\ ~result.success
    /\ Len(attempts) = 4
    /\ attempts[4] = [cfg |-> 2, mode |-> "require", result |-> "failed"]

\* C3 (as claimed): when the process has ended, each of the four credential
\* sets has been tested exactly once, in list order, and
\* successful_connections holds, in list order, exactly the sets whose call
\* returned success.
C3_AllSetsTestedOnceInOrder ==
    TroubleExited =>
       /\ tested = <<1, 2, 3, 4>>
       /\ \E keep \in SUBSET (1..Len(test_configs)) :
             /\ Len(successful_connections) = Cardinality(keep)
             /\ \A k \in keep :
                   successful_connections[Cardinality({j \in keep : j <= k})]
                      = test_configs[k]
       /\ (result.success <=>
              (/\ successful_connections # <<>>
               /\ successful_connections[Len(successful_connections)]
                     = test_configs[Len(test_configs)]))

\* C3 on the runs that reach the summary: the same statement holds there.
C3_HoldsWhenSummaryReached ==
    (TroubleExited /\ exit_code = 0) =>
       /\ tested = <<1, 2, 3, 4>>
       /\ Len(successful_connections) <= Len(test_configs)

\* C4 (as claimed): the process never ends without the summary.
C4_SummaryAlwaysPrinted ==
    TroubleExited => "TROUBLESHOOTING SUMMARY" \in Range(out)

\* The first matching category of the elif chain of the handler.
C5_Category(msg) ==
    IF "pg_hba.conf entry" \in msg THEN "allowlist"
    ELSE IF "authentication failed" \in msg THEN "credentials"
    ELSE IF "database" \in msg /\ "does not exist" \in msg THEN "database"
    ELSE "unclassified"

\* C5 (as claimed): after a failed attempt, a message with 'pg_hba.conf
\* entry' has the IP-not-allowed guidance, one of the wrong-credentials
\* category the credentials guidance, one of the nonexistent-database
\* category the database guidance.
C5_GuidanceForEveryCategory ==
    lastMsg # NoMsg =>
       /\ ("pg_hba.conf entry" \in lastMsg => "ip_not_allowed" \in Range(guidance))
       /\ (C5_Category(lastMsg) = "credentials"
              => "wrong_username_password" \in Range(guidance))
       /\ (C5_Category(lastMsg) = "database"
              => "database_does_not_exist" \in Range(guidance))

\* C5 (amended): after an attempt that failed with a driver error, the
\* message falls into exactly one category, the first that matches in the
\* order allowlist, credentials, database, unclassified; the credentials and
\* database guidance is printed exactly for its category, the IP-not-allowed
\* guidance exactly for an allowlist message that also contains the client
\* address 100.89.18.15, and nothing is printed for an unclassified message.
C5_GuidanceByFirstMatch ==
    lastMsg # NoMsg =>
       LET cat == C5_Category(lastMsg)
           printed == Range(guidance)
       IN  /\ ("ip_not_allowed" \in printed
                 <=> (cat = "allowlist" /\ client_ip \in lastMsg))
           /\ ("wrong_username_password" \in printed <=> cat = "credentials")
           /\ ("database_does_not_exist" \in printed <=> cat = "database")
           /\ (printed \cap {"ssl_required_ip_not_in_hba", "nonssl_ip_not_in_hba"} # {}
                 => "ip_not_allowed" \in printed)
           /\ (cat = "unclassified" => guidance = <<>>)
           /\ Len(guidance) <= 2

\* C5 witness: a failed attempt whose message has 'pg_hba.conf entry' and
\* 'authentication failed' but not the client address: nothing was printed.
C5_Witness ==
    /\ lastMsg # NoMsg
    /\ "pg_hba.conf entry" \in lastMsg
    /\ "authentication failed" \in lastMsg
    /\ client_ip \notin lastMsg
    /\ guidance = <<>>
    /\ attempts # <<>> /\ attempts[Len(attempts)].result = "failed"

\* The (database, user) pairs main has tried.
TriedPairs == {<<test_configs[k].database, test_configs[k].user>> : k \in Range(tested)}

\* C6 (as claimed): the suggestion and the alternatives are printed exactly
\* when every call returned failure, and the suggestion then has one hostssl
\* and one host rule against the client address for each tried pair and no
\* rule for any other pair.
C6_RulesExactlyForTriedPairs ==
    TroubleExited =>
       LET emitted == "SOLUTION FOR DATABASE ADMINISTRATOR" \in Range(out)
           rules == Range(pg_hba_config)
       IN  /\ (emitted <=> "ALTERNATIVE SOLUTIONS" \in Range(out))
           /\ (emitted <=> (tested = <<1, 2, 3, 4>> /\ successful_connections = <<>>))
           /\ (emitted =>
                 /\ \A pr \in TriedPairs : \A t \in {"hostssl", "host"} :
                       Cardinality({k \in DOMAIN pg_hba_config :
                                       /\ pg_hba_config[k].type = t
                                       /\ pg_hba_config[k].database = pr[1]
                                       /\ pg_hba_config[k].user = pr[2]
                                       /\ pg_hba_config[k].address = client_ip}) = 1
                 /\ \A r \in rules : <<r.database, r.user>> \in TriedPairs)

-----------------------------------------------------------------------------
(* Properties of the reports                                               *)

\* the kinds of the lines printed so far
Kinds == {out[i][1] : i \in DOMAIN out}

ErrorLines == {"database_error", "unexpected_error", "error", "traceback", "interrupted"}
NoDataLines == {"no_patient_data", "no_match", "no_visits_today"}
TableLines == {"count", "header", "row", "stats_title", "stats", "dept"}

\* the program has ended and no handler has printed an error
EndedWithoutError == pc = "exited" /\ Kinds \cap ErrorLines = {}

\* C7 (as claimed): a routine that ends without an error has closed every
\* connection and cursor it opened, has opened at most one of each, and
\* exactly one of each if it has run a query.
C7_OneConnectionClosedOnReturn ==
    (prog \in ReportProgs /\ EndedWithoutError) =>
       /\ connOpened <= 1 /\ curOpened <= 1
       /\ connClosed = connOpened
       /\ curClosed = curOpened
       /\ (Kinds \cap (NoDataLines \cup TableLines) # {} => connOpened = 1 /\ curOpened = 1)

\* C8: in list_patients, search_patients and show_todays_visits the no-data
\* message and the table exclude each other; a query that returned no row is
\* followed by the no-data message (for the search, with the search term) and
\* by no count, header, row or statistics; a query that returned rows is
\* followed by the count, the header and one table line per row.
C8_NoDataMessageOrTable ==
    prog \in {"patients", "search", "today"} =>
       /\ ~(Kinds \cap NoDataLines # {} /\ Kinds \cap TableLines # {})
       /\ (EndedWithoutError /\ fetched = <<>> /\ (prog = "search" => search_term # <<>>)) =>
             out = << CASE prog = "patients" -> <<"no_patient_data">>
                        [] prog = "search" -> <<"no_match", Strip(user_input)>>
                        [] prog = "today" -> <<"no_visits_today", Today>> >>
       /\ fetched # <<>> =>
             /\ Kinds \cap NoDataLines = {}
             /\ Len(out) >= 2 + Len(fetched)
             /\ out[1] = <<"count", Len(fetched)>>
             /\ out[2] = <<"header">>
             /\ \A i \in DOMAIN fetched : out[2 + i][1] = "row"

\* C8 witness: a search in a table with patients, none of which matches,
\* has printed the no-match message with the term and nothing else.
C8_Witness ==
    /\ prog = "search" /\ pc = "exited"
    /\ Len(tbl_ptinf) = 2
    /\ search_term = <<"s", "S">>
    /\ out = << <<"no_match", <<"s", "S">> >> >>

\* t occurs in s as a substring (characters compared by Same)
Contains(s, t, Same(_, _)) ==
    /\ s # NULL
    /\ \E k \in 0..(Len(s) - Len(t)) : \A i \in DOMAIN t : Same(s[k + i], t[i])

SameChar(a, b) == a = b
SameIgnoringCase(a, b) == Lower(a) = Lower(b)

\* the search has run its query and ended without an error
SearchDone == prog = "search" /\ EndedWithoutError /\ search_term # <<>>

\* C9 (as claimed): the search returns exactly the patients of facility 1
\* whose name or phonetic name contains the term, compared ignoring case.
C9_CaseInsensitiveSubstring ==
    SearchDone =>
       Range(fetched) =
          {p \in Range(tbl_ptinf) :
              /\ p.hospnum = 1
              /\ \/ Contains(p.name, search_term, SameIgnoringCase)
                 \/ Contains(p.kananame, search_term, SameIgnoringCase)}

\* the characters LIKE gives a meaning to
LikeSpecial == {"%", "_", "\\"}

\* C9 (amended): for a term without %, _ and backslash the search returns,
\* each once, exactly the patients of facility 1 whose name or phonetic name
\* contains the term with the same letter case; for every term it returns
\* only patients of facility 1 and no patient whose name and phonetic name
\* are NULL.
C9_CaseSensitiveSubstring ==
    SearchDone =>
       /\ Len(fetched) = Cardinality(Range(fetched))
       /\ \A p \in Range(fetched) :
             /\ p \in Range(tbl_ptinf)
             /\ p.hospnum = 1
             /\ ~(p.name = NULL /\ p.kananame = NULL)
       /\ Range(search_term) \cap LikeSpecial = {} =>
             Range(fetched) =
                {p \in Range(tbl_ptinf) :
                    /\ p.hospnum = 1
                    /\ \/ Contains(p.name, search_term, SameChar)
                       \/ Contains(p.kananame, search_term, SameChar)}

\* C9 witness: the search for "s" has returned the patient named "Ss" and
\* not the patient of the same facility named "S".
C9_Witness ==
    /\ SearchDone
    /\ search_term = <<"s">>
    /\ Len(fetched) = 1
    /\ fetched[1].name = <<"S", "s">>
    /\ \E p \in Range(tbl_ptinf) :
          p.hospnum = 1 /\ p.name = <<"S">> /\ p.kananame = NULL

\* the display of a visit time according to the claim
C10_Display(t) ==
    IF t = NULL \/ t = <<>> THEN MISETTEI
    ELSE IF Len(t) >= 6 THEN <<t[1], t[2], ":", t[3], t[4], ":", t[5], t[6]>>
    ELSE t

\* C10: every time printed by show_todays_visits and by the two loops of
\* check_today_visits.py is the claimed display of the row's uketime.
C10_TimeDisplay ==
    /\ (prog = "today" /\ fetched # <<>>) =>
          \A i \in DOMAIN fetched : out[2 + i][2] = C10_Display(fetched[i].uketime)
    /\ (prog = "check_today" /\ pc = "recent" /\ fetched # <<>>) =>
          \A i \in DOMAIN fetched :
             /\ out[2 + i][1] = "visit"
             /\ out[2 + i][4] = C10_Display(fetched[i].uketime)
    /\ (prog = "check_today" /\ EndedWithoutError /\ fetched # <<>>) =>
          \A i \in DOMAIN fetched :
             /\ out[Len(out) - Len(fetched) + i][1] = "recent"
             /\ out[Len(out) - Len(fetched) + i][3] = C10_Display(fetched[i].uketime)

\* C10 witness: check_today_visits.py has listed a visit with a time of
\* seven characters and one with a time of five.
C10_Witness ==
    /\ prog = "check_today" /\ pc = "recent"
    /\ Len(fetched) = 2
    /\ fetched[1].uketime = <<"0", "9", "3", "0", "1">>
    /\ out[3][4] = <<"0", "9", "3", "0", "1">>
    /\ fetched[2].uketime = <<"0", "9", "3", "0", "1", "5", "7">>
    /\ out[4][4] = <<"0", "9", ":", "3", "0", ":", "1", "5">>

\* the routine has printed its table: the lines of the fetched rows follow
\* the count and the header
TablePrinted(p) == prog = p /\ fetched # <<>>

\* C11: in the listing and the search, a birthday of eight characters is
\* shown as its first four, "nen", its next two, "gatsu", its last two,
\* "nichi"; a NULL or empty birthday is shown as "seinengappi fumei"; no other
\* birthday is shown as "seinengappi fumei".
C11_BirthDateDisplay ==
    (TablePrinted("patients") \/ TablePrinted("search")) =>
       \A i \in DOMAIN fetched :
          LET b == fetched[i].birthday
              cell == out[2 + i][6]
          IN  /\ (b # NULL /\ Len(b) = 8) =>
                    cell = <<b[1], b[2], b[3], b[4], "nen", b[5], b[6], "gatsu",
                             b[7], b[8], "nichi">>
              /\ (b = NULL \/ b = <<>>) => cell = SEINENGAPPI_FUMEI
              /\ cell = SEINENGAPPI_FUMEI => (b = NULL \/ b = <<>>)

\* C11 witness: the search has listed a patient with an empty birthday as
\* "seinengappi fumei".
C11_Witness ==
    /\ TablePrinted("search")
    /\ fetched[1].birthday = <<>>
    /\ out[3][6] = SEINENGAPPI_FUMEI

\* the content of a cell: the value, or the fallback of a NULL or empty value
C13_Value(x, fallback) == IF x = NULL \/ x = <<>> THEN fallback ELSE x

\* a cell of a column of `width` characters with the threshold `limit`
C13_Cell(cell, value, limit, width) ==
    /\ Len(cell) <= width
    /\ Len(value) <= limit => cell = value
    /\ Len(value) > limit =>
          \E k \in 0..Len(value) : cell = SubSeq(value, 1, k) \o <<".", ".", ".">>

\* C13: the name and phonetic-name cells of the listing (threshold 18,
\* width 20), of the search (13, 15) and of the visit table (name 18, 20;
\* phonetic name 16, 18) never exceed the width; a value over the threshold is
\* shown as a prefix and "...", any other value unchanged.
C13_CellsWithinWidth ==
    /\ TablePrinted("patients") =>
          \A i \in DOMAIN fetched :
             /\ C13_Cell(out[2 + i][3], C13_Value(fetched[i].name, NAMAE_NASHI), 18, 20)
             /\ C13_Cell(out[2 + i][4], C13_Value(fetched[i].kananame, FURIGANA_NASHI), 18, 20)
    /\ TablePrinted("search") =>
          \A i \in DOMAIN fetched :
             /\ C13_Cell(out[2 + i][3], C13_Value(fetched[i].name, NAMAE_NASHI), 13, 15)
             /\ C13_Cell(out[2 + i][4], C13_Value(fetched[i].kananame, FURIGANA_NASHI), 13, 15)
    /\ TablePrinted("today") =>
          \A i \in DOMAIN fetched :
             /\ C13_Cell(out[2 + i][4], fetched[i].name, 18, 20)
             /\ C13_Cell(out[2 + i][5], C13_Value(fetched[i].kananame, FURIGANA_NASHI), 16, 18)

\* C13 witness: the visit table shows a name of 17 characters unchanged and
\* the phonetic name of 17 characters as 13 characters and "...".
C13_Witness ==
    /\ TablePrinted("today")
    /\ Len(fetched[1].name) = 17
    /\ out[3][4] = fetched[1].name
    /\ Len(fetched[1].kananame) = 17
    /\ out[3][5] = Chars("k", 13) \o <<".", ".", ".">>

\* the codes '01'..'12'
C12_Codes ==
    {<<"0", "1">>, <<"0", "2">>, <<"0", "3">>, <<"0", "4">>, <<"0", "5">>, <<"0", "6">>,
     <<"0", "7">>, <<"0", "8">>, <<"0", "9">>, <<"1", "0">>, <<"1", "1">>, <<"1", "2">>}

\* the visits of today in the reception table, and their department codes
C12_Visits == SelectSeq(tbl_uketuke, LAMBDA u : IsTodaysVisit(u, Today))
C12_Present == {u.sryka : u \in Range(C12_Visits)} \ {NULL, <<>>}

\* `cell` is the display of `code`, with `sentinel` for a missing code
C12_Shown(cell, code, sentinel) ==
    /\ code = <<"0", "1">> => cell = <<"nai", "ka">>
    /\ code = <<"0", "2">> => cell = <<"ge", "ka">>
    /\ code \in C12_Codes => \E e \in dept_map : e[1] = code /\ cell = e[2]
    /\ (code \notin C12_Codes /\ code # NULL /\ code # <<>>) => cell = code
    /\ (code = NULL \/ code = <<>>) =>
          /\ cell = sentinel
          /\ \A c \in C12_Present \ C12_Codes : c # sentinel

\* C12: in the visit table every department cell is the display of the row's
\* code with the sentinel "misettei"; in the breakdown there is a line for
\* every code of today's visits and every line is the display, with the
\* sentinel "fumei", of a code with its number of visits.
C12_DepartmentDisplay ==
    TablePrinted("today") =>
       /\ \A i \in DOMAIN fetched : C12_Shown(out[2 + i][6], fetched[i].sryka, MISETTEI)
       /\ EndedWithoutError =>
             LET lines == {out[k] : k \in (4 + Len(fetched))..Len(out)}
                 codes == {u.sryka : u \in Range(C12_Visits)}
                 CountOf(d) == Cardinality({k \in DOMAIN C12_Visits : C12_Visits[k].sryka = d})
             IN  /\ out[3 + Len(fetched)] = <<"stats_title">>
                 /\ Len(out) = 3 + Len(fetched) + Cardinality(codes)
                 /\ \A line \in lines :
                       /\ line[1] = "dept"
                       /\ \E d \in codes : C12_Shown(line[2], d, FUMEI) /\ line[3] = CountOf(d)
                 /\ \A d \in codes :
                       \E line \in lines : C12_Shown(line[2], d, FUMEI) /\ line[3] = CountOf(d)

\* C12 witness: a visit without a department and a visit of department '99'
\* are shown as "misettei" and '99' in the table and counted under "fumei"
\* and '99' in the breakdown.
C12_Witness ==
    /\ TablePrinted("today") /\ EndedWithoutError
    /\ Len(fetched) = 2
    /\ fetched[1].sryka = NULL
    /\ out[3][6] = MISETTEI
    /\ out[4][6] = <<"9", "9">>
    /\ {out[6], out[7]} = {<<"dept", FUMEI, 1>>, <<"dept", <<"9", "9">>, 1>>}

\* the sum of the counts of the breakdown lines out[from..Len(out)]
RECURSIVE SumOfCounts(_)
SumOfCounts(from) ==
    IF from > Len(out) THEN 0 ELSE out[from][3] + SumOfCounts(from + 1)

\* the rows of the reception table of today and facility 1 that have a name
C16_Named ==
    {k \in DOMAIN tbl_uketuke :
        /\ tbl_uketuke[k].ukeymd = Today
        /\ tbl_uketuke[k].hospnum = 1
        /\ tbl_uketuke[k].name # NULL
        /\ tbl_uketuke[k].name # <<>>}

\* the name cell shows `name`, cut to 15 characters and "..." beyond 18
C16_ShowsOwnName(cell, name) ==
    /\ name # NULL /\ name # <<>>
    /\ \/ cell = name
       \/ Len(name) > 18 /\ cell = SubSeq(name, 1, 15) \o <<".", ".", ".">>

\* C16: every row listed by show_todays_visits and by the two loops of
\* check_today_visits.py has a recorded name and shows it, never the name of
\* the joined patient nor "namae nashi"; the counts of the breakdown add up to
\* the number of today's visits that have a name.
C16_OwnNameAlwaysShown ==
    /\ TablePrinted("today") =>
          /\ \A i \in DOMAIN fetched : C16_ShowsOwnName(out[2 + i][4], fetched[i].name)
          /\ EndedWithoutError => SumOfCounts(4 + Len(fetched)) = Cardinality(C16_Named)
    /\ (prog = "check_today" /\ pc = "recent") =>
          \A i \in DOMAIN fetched :
             /\ fetched[i].name # NULL /\ fetched[i].name # <<>>
             /\ out[2 + i][3] = fetched[i].name
    /\ (prog = "check_today" /\ EndedWithoutError) =>
          \A i \in DOMAIN fetched :
             /\ fetched[i].name # NULL /\ fetched[i].name # <<>>
             /\ out[Len(out) - Len(fetched) + i][4] = fetched[i].name

\* C16 witness: of two visits of today of a registered patient, one without a
\* name, only the named one is listed and counted, under its own name.
C16_Witness ==
    /\ TablePrinted("today") /\ EndedWithoutError
    /\ Len(tbl_ptinf) = 1
    /\ Len(tbl_uketuke) = 2
    /\ \E u \in Range(tbl_uketuke) : u.name = NULL /\ u.ukeymd = Today /\ u.hospnum = 1
    /\ Len(fetched) = 1
    /\ fetched[1].full_name = <<"P">>
    /\ out[3][4] = <<"T">>
    /\ SumOfCounts(5) = 1

\* C19 (as claimed): the number of rows of the visit table, which is the
\* count printed above it, is the sum of the counts of the breakdown, and the
\* breakdown is in non-increasing order of count.
C19_TableCountIsBreakdownSum ==
    (TablePrinted("today") /\ EndedWithoutError) =>
       /\ out[1] = <<"count", Len(fetched)>>
       /\ Len(fetched) = SumOfCounts(4 + Len(fetched))
       /\ \A k \in (4 + Len(fetched))..(Len(out) - 1) : out[k][3] >= out[k + 1][3]

-----------------------------------------------------------------------------
(* Properties of the error handling and of test_orca_database              *)

\* the lines printed by the top of a process: the handler of __main__ and
\* the interpreter
TopLevelLines ==
    IF prog = "troubleshoot" THEN {"unexpected_error", "traceback"}
    ELSE {<<"top_level_error">>, <<"traceback">>}

\* C14 (as claimed): no error of connect, execute or fetch reaches the
\* handler of __main__: connection_troubleshoot.py never prints the
\* unexpected error of its __main__, and test_orca_odbc.py prints the one of
\* its __main__ only before any connection was tried.
C14_ErrorsCaughtInRoutine ==
    /\ prog = "troubleshoot" => "unexpected_error" \notin Range(out)
    /\ (prog # "troubleshoot" /\ <<"top_level_error">> \in Range(out)) =>
          tries = <<>> /\ connOpened = 0

\* C15: a running process has no exit code; a process that has ended has the
\* code 1 if its last line is the one of the handler of __main__ or the
\* traceback of the failed import, and 0 in every other case: the mode ran to
\* its end (an unknown option and errors caught in a routine included) or the
\* operator interrupted it.
C15_ExitCode ==
    /\ pc # "exited" => exit_code = NoExit
    /\ pc = "exited" =>
          /\ exit_code \in {0, 1}
          /\ exit_code = 1 <=> (out # <<>> /\ out[Len(out)] \in TopLevelLines)
          /\ Line("interrupted") \in Range(out) => exit_code = 0

\* C15 witness: the search has ended with status 0 after a database error
\* caught in the routine.
C15_Witness ==
    /\ prog = "search" /\ pc = "exited"
    /\ out = << <<"database_error">> >>
    /\ connOpened = 1
    /\ exit_code = 0

\* C17 (as claimed): at most one connection is open at any time; the
\* diagnostic routine has no open connection when it tries the next SSL mode
\* or returns; no process that was not interrupted ends with an open
\* connection.
C17_ConnectionClosedOnEveryPath ==
    /\ connOpened - connClosed <= 1
    /\ (prog = "troubleshoot" /\ pc \in {"main_loop", "mode_loop", "connect"}) =>
          connOpened = connClosed
    /\ (pc = "exited" /\ Line("interrupted") \notin Range(out)) => connOpened = connClosed

\* C18: in test_orca_database the i-th call of test_connection uses the i-th
\* of the ANSI driver with the defaults, the Unicode driver with the
\* defaults, and the ANSI driver with receipt, weborca, postgres; every call
\* but the last has failed; there are at most 5 calls, and at least one once
\* the drivers are listed.
C18_FallbackChain ==
    prog = "database" =>
       /\ Len(tries) <= 5
       /\ (pc \notin {"import", "drivers", "exited"} => Len(tries) >= 1)
       /\ \A i \in DOMAIN tries :
             /\ tries[i].driver = IF i = 2 THEN "PostgreSQL Unicode" ELSE "PostgreSQL ANSI"
             /\ tries[i].database =
                   <<"orca", "orca", "receipt", "weborca", "postgres">>[i]
             /\ i < Len(tries) => tries[i].result = "failed"
       /\ Cardinality({i \in DOMAIN tries : tries[i].result = "ok"}) <= 1

\* C18 witness: the fourth call, for weborca, succeeded and the routine went
\* on to its summary without a fifth.
C18_Witness ==
    /\ prog = "database" /\ pc = "summary"
    /\ Len(tries) = 4
    /\ tries[4] = [driver |-> "PostgreSQL ANSI", database |-> "weborca", result |-> "ok"]

====
